---- MODULE Spec2Model ----
\* JARR content generation (jarr/lib/content_generator.py): the strategy
\* registry, get_content_generator and its lru_cache, and generate() /
\* get_vector() of the five strategy classes; plus the article-creation
\* endpoint exercised by tests/api/article_test.py.
EXTENDS Integers, Sequences, FiniteSets, TLC

VARIABLES articles, insts, fetches, cache, recency, lastInst, call,
          is_api, db_articles, resp

vars == <<articles, insts, fetches, cache, recency, lastInst, call,
          is_api, db_articles, resp>>

genVars == <<articles, insts, fetches, cache, recency, lastInst, call>>
apiVars == <<is_api, db_articles, resp>>

\* ---------------------------------------------------------------- bounds

\* Articles of the cache specification: enough to overflow the lru_cache.
MaxArticles == 130
\* Page fetches one strategy instance may attempt in a run.
MaxFetches == 3
\* Articles the API specification may create.
MaxCreated == 3

\* ------------------------------------------------------------ constants

IMG_ALT_MAX_LENGTH == 100
\* functools.lru_cache() is applied without arguments: maxsize defaults to 128.
LruMaxSize == 128

\* --------------------------------------------------------- Python values

None == "None"
\* Optional[str] whose characters matter (title, content): a tagged sequence.
NoneText == [some |-> FALSE, s |-> <<>>]
Str(s) == [some |-> TRUE, s |-> s]
TextTruthy(t) == t.some /\ Len(t.s) > 0
\* str | None kept whole (link, comments): truthiness of `if x`.
StrTruthy(x) == x # None /\ x # ""
EmptyDict == <<>>
NonePage == [none |-> TRUE]
NoVector == [none |-> TRUE]
\* An Enum member is truthy; None is not.
EnumTruthy(e) == e # None
EnumValue(e) == e

Min(a, b) == IF a < b THEN a ELSE b

\* jarr.lib.enums: ArticleType and FeedType members.
ArticleTypes == {"image", "embedded", "video"}
FeedTypes == {"reddit", "classic"}

\* ------------------------------------------------------------ inputs

LinkYoutube == "https://www.youtube.com/watch?v=dQw4w9WgXcQ"
LinkReddit == "https://www.reddit.com/r/python/comments/abc/post/"
LinkComments == "https://www.reddit.com/r/python/comments/xyz/other/"
Links == {LinkYoutube, LinkReddit}
CommentsValues == {None, "", LinkReddit, LinkComments}

LongText == [i \in 1..(IMG_ALT_MAX_LENGTH + 1) |-> "x"]
Titles == {NoneText, Str(<<>>), Str(<<"a", "<", "b", "&">>), Str(LongText)}
Contents == {NoneText, Str(<<"c", ">">>)}

ArticleValues ==
    [article_type : ArticleTypes \cup {None},
     feed : [feed_type : FeedTypes \cup {None}, truncated_content : BOOLEAN],
     link : Links,
     comments : CommentsValues,
     title : Titles,
     content : Contents]

\* What goose.extract(link) can give: an exception, or a parsed page. top_node
\* is the main node followed by its next siblings (getnext() of each), or None
\* when the page has no main content.
NoneNode == [none |-> TRUE]
Nodes(ns) == [none |-> FALSE, nodes |-> ns]
PageFull ==
    [none |-> FALSE, final_url |-> LinkReddit,
     top_node |-> Nodes(<<[tag |-> "div", text |-> "main"], [tag |-> "p", text |-> "next"]>>),
     og_locale |-> "en_US", meta_lang |-> "en",
     meta_keywords |-> <<"k1", ", ", "k2">>, tags |-> {"t1"}, title |-> "Page"]
PageMoved ==
    [none |-> FALSE, final_url |-> LinkComments,
     top_node |-> Nodes(<<[tag |-> "article", text |-> "a"]>>),
     og_locale |-> None, meta_lang |-> "fr",
     meta_keywords |-> <<>>, tags |-> {}, title |-> ""]
PageNoContent ==
    [none |-> FALSE, final_url |-> LinkYoutube,
     top_node |-> NoneNode,
     og_locale |-> None, meta_lang |-> "en",
     meta_keywords |-> <<"k1">>, tags |-> {"k1"}, title |-> "Empty"]
Pages == {PageFull, PageMoved, PageNoContent}
ExtractRaises == [raised |-> TRUE, page |-> NonePage]
FetchOutcomes == {ExtractRaises} \cup {[raised |-> FALSE, page |-> p] : p \in Pages}
NoFetch == [raised |-> FALSE, page |-> NonePage]

\* What the network would answer to HEAD comments (redirects followed): a
\* failure, or the final URL.
HeadError == "error"
HeadReplies == {HeadError, LinkYoutube, LinkReddit, LinkComments}
\* A HEAD request needs a URL: with comments None or '' it can only fail.
HeadRepliesFor(comments) ==
    IF StrTruthy(comments) THEN HeadReplies ELSE {HeadError}
NoHead == "unused"

\* ------------------------------------------------------- pure functions

\* YOUTUBE_RE.match(link): the capture group 5 on a match, None on no match.
YoutubeMatch(link) ==
    IF link = LinkYoutube THEN "dQw4w9WgXcQ" ELSE None

is_embedded_link(link) == YoutubeMatch(link)

\* html.escape(s) with quote=True.
EscapeChar(c) ==
    CASE c = "&" -> <<"&", "a", "m", "p", ";">>
      [] c = "<" -> <<"&", "l", "t", ";">>
      [] c = ">" -> <<"&", "g", "t", ";">>
      [] c = "\"" -> <<"&", "q", "u", "o", "t", ";">>
      [] c = "'" -> <<"&", "#", "x", "2", "7", ";">>
      [] OTHER -> <<c>>

RECURSIVE html_escape(_)
html_escape(s) ==
    IF s = <<>> THEN <<>> ELSE EscapeChar(Head(s)) \o html_escape(Tail(s))

\* s[:n]
SliceTo(s, n) == SubSeq(s, 1, Min(Len(s), n))

\* str.split(', ') on a string given as its pieces and separators.
RECURSIVE SplitPieces(_, _)
SplitPieces(s, cur) ==
    IF s = <<>> THEN <<cur>>
    ELSE IF Head(s) = ", " THEN <<cur>> \o SplitPieces(Tail(s), "")
    ELSE SplitPieces(Tail(s), Head(s))
Split(s) == SplitPieces(s, "")

SeqToSet(s) == {s[i] : i \in DOMAIN s}

\* ------------------------------------------------------------ strategies

Return(v) == [raised |-> "", value |-> v]
Raise(e) == [raised |-> e, value |-> <<>>]

\* ContentGenerator.__init__
ContentGenerator_init(cls, a) ==
    [cls |-> cls, article |-> a, page |-> NonePage, extracted_infos |-> EmptyDict]

\* ContentGenerator._get_goose: f is what goose.extract gives this time.
get_goose(self, f) ==
    LET page == IF f.raised THEN self.page ELSE f.page
    IN  IF page.none
        THEN [self |-> [self EXCEPT !.page = page], ret |-> FALSE]
        ELSE [self |-> [self EXCEPT
                  !.page = page,
                  !.extracted_infos =
                      [lang |-> IF StrTruthy(page.og_locale)
                                THEN page.og_locale ELSE page.meta_lang,
                       link |-> page.final_url,
                       tags |-> page.tags \cup SeqToSet(Split(page.meta_keywords)),
                       title |-> page.title]],
              ret |-> TRUE]

\* jarr.controllers.article.to_vector
to_vector(extracted_infos, page) == [none |-> FALSE, infos |-> extracted_infos]

\* Variant: the page is fetched on every call, whatever _page holds.
FetchAlways(self, f) ==
    [self |-> get_goose(self, f).self, fetched |-> TRUE]

\* `if self._page is None: self._get_goose()`
FetchIfNone(self, f) ==
    IF self.page.none
    THEN [self |-> get_goose(self, f).self, fetched |-> TRUE]
    ELSE [self |-> self, fetched |-> FALSE]

\* ContentGenerator.get_vector
ContentGenerator_get_vector(self, f) ==
    LET s1 == FetchIfNone(self, f)
    IN  [self |-> s1.self, fetched |-> s1.fetched,
         out |-> Return(IF ~s1.self.page.none /\ s1.self.extracted_infos # EmptyDict
                        THEN to_vector(s1.self.extracted_infos, s1.self.page)
                        ELSE NoVector)]

\* etree.tostring(node, encoding).decode(encoding)
tostring(node) == <<"<", node.tag, ">", node.text, "</", node.tag, ">">>

RECURSIVE SerializeFrom(_)
SerializeFrom(ns) ==
    IF ns = <<>> THEN <<>> ELSE tostring(Head(ns)) \o SerializeFrom(Tail(ns))

\* ContentGenerator._from_goose_to_html
from_goose_to_html(page) ==
    IF page.none THEN Raise("AttributeError")
    ELSE IF page.top_node.none THEN Raise("TypeError")
    ELSE Return(SerializeFrom(page.top_node.nodes))

\* ContentGenerator.generate (staticmethod)
ContentGenerator_generate ==
    Return([success |-> FALSE, content |-> EmptyDict])

\* ImageContentGenerator.get_vector, EmbeddedContentGenerator.get_vector
Typed_get_vector(self) ==
    [self |-> self, fetched |-> FALSE, out |-> Return(NoVector)]

\* ImageContentGenerator.generate
ImageContentGenerator_generate(self, art) ==
    LET text == IF TextTruthy(art.title) THEN art.title ELSE art.content
    IN  [self |-> self, fetched |-> FALSE,
         out |-> IF art.article_type = None THEN Raise("AttributeError")
                 ELSE IF ~text.some THEN Raise("TypeError")
                 ELSE Return([success |-> TRUE,
                              content |->
                                  [type |-> EnumValue(art.article_type),
                                   alt |-> html_escape(SliceTo(text.s, IMG_ALT_MAX_LENGTH)),
                                   src |-> art.link]])]

\* EmbeddedContentGenerator.generate
EmbeddedContentGenerator_generate(self, art) ==
    LET yt_match == YoutubeMatch(art.link)
    IN  [self |-> self, fetched |-> FALSE,
         out |-> IF yt_match # None
                 THEN IF art.article_type = None THEN Raise("AttributeError")
                      ELSE Return([success |-> TRUE,
                                   content |-> [type |-> EnumValue(art.article_type),
                                                player |-> "youtube",
                                                videoId |-> yt_match]])
                 ELSE Return([success |-> TRUE, content |-> EmptyDict])]

\* Variant: the comments key is written whenever the fetch succeeded, without
\* the truthiness test on article.comments.
TruncatedContentGenerator_generate_always_comments(self, art, f) ==
    LET s1 == FetchIfNone(self, f)
        html == from_goose_to_html(s1.self.page)
        success == html.raised = ""
    IN  [self |-> s1.self, fetched |-> s1.fetched,
         out |-> Return([success |-> success,
                         content |-> IF ~success THEN [type |-> "fetched"]
                                     ELSE [type |-> "fetched", content |-> html.value,
                                           link |-> s1.self.page.final_url,
                                           comments |-> art.comments]])]

\* TruncatedContentGenerator.generate
TruncatedContentGenerator_generate(self, art, f) ==
    LET s1 == FetchIfNone(self, f)
        html == from_goose_to_html(s1.self.page)
        success == html.raised = ""
        content == IF ~success THEN [type |-> "fetched"]
                   ELSE IF StrTruthy(art.comments)
                   THEN [type |-> "fetched", content |-> html.value,
                         link |-> s1.self.page.final_url,
                         comments |-> art.comments]
                   ELSE [type |-> "fetched", content |-> html.value,
                         link |-> s1.self.page.final_url]
    IN  [self |-> s1.self, fetched |-> s1.fetched,
         out |-> Return([success |-> success, content |-> content])]

\* requests.head(url, allow_redirects=True, timeout=...) followed by
\* raise_for_status(): the module never imports `requests`, so evaluating the
\* name raises NameError whatever the network would answer.
requests_head(url, reply) == Raise("NameError")

\* Variant: the link == comments shortcut is missing.
is_pure_reddit_post_no_shortcut(art, reply) ==
    IF art.article_type # None THEN [value |-> FALSE, headed |-> FALSE]
    ELSE LET head == requests_head(art.comments, reply)
         IN  IF head.raised # "" THEN [value |-> FALSE, headed |-> TRUE]
             ELSE [value |-> art.link = head.value, headed |-> TRUE]

\* Variant: a failed HEAD request classifies the article as a pure post.
is_pure_reddit_post_failure_is_pure(art, reply) ==
    IF art.article_type # None THEN [value |-> FALSE, headed |-> FALSE]
    ELSE IF art.link = art.comments THEN [value |-> TRUE, headed |-> FALSE]
    ELSE LET head == requests_head(art.comments, reply)
         IN  IF head.raised # "" THEN [value |-> TRUE, headed |-> TRUE]
             ELSE [value |-> art.link = head.value, headed |-> TRUE]

\* RedditContentGenerator.is_pure_reddit_post; headed: the HEAD line was reached.
is_pure_reddit_post(art, reply) ==
    IF art.article_type # None THEN [value |-> FALSE, headed |-> FALSE]
    ELSE IF art.link = art.comments THEN [value |-> TRUE, headed |-> FALSE]
    ELSE LET head == requests_head(art.comments, reply)
         IN  IF head.raised # "" THEN [value |-> FALSE, headed |-> TRUE]
             ELSE IF art.link = head.value THEN [value |-> TRUE, headed |-> TRUE]
             ELSE [value |-> FALSE, headed |-> TRUE]

\* RedditContentGenerator.get_vector
RedditContentGenerator_get_vector(self, art, f, reply) ==
    IF ~is_pure_reddit_post(art, reply).value
    THEN ContentGenerator_get_vector(self, f)
    ELSE [self |-> self, fetched |-> FALSE, out |-> Return(NoVector)]

\* RedditContentGenerator.generate
RedditContentGenerator_generate(self, art, f, reply) ==
    IF ~is_pure_reddit_post(art, reply).value
    THEN TruncatedContentGenerator_generate(self, art, f)
    ELSE [self |-> self, fetched |-> FALSE,
          out |-> Return([success |-> FALSE, content |-> EmptyDict])]

\* Method resolution: the generate() / get_vector() of the instance's class.
generate(self, art, f, reply) ==
    CASE self.cls = "ImageContentGenerator" -> ImageContentGenerator_generate(self, art)
      [] self.cls = "EmbeddedContentGenerator" -> EmbeddedContentGenerator_generate(self, art)
      [] self.cls = "TruncatedContentGenerator" -> TruncatedContentGenerator_generate(self, art, f)
      [] self.cls = "RedditContentGenerator" -> RedditContentGenerator_generate(self, art, f, reply)
      [] OTHER -> [self |-> self, fetched |-> FALSE, out |-> ContentGenerator_generate]

get_vector(self, art, f, reply) ==
    CASE self.cls = "ImageContentGenerator" -> Typed_get_vector(self)
      [] self.cls = "EmbeddedContentGenerator" -> Typed_get_vector(self)
      [] self.cls = "RedditContentGenerator" -> RedditContentGenerator_get_vector(self, art, f, reply)
      [] OTHER -> ContentGenerator_get_vector(self, f)

\* -------------------------------------------------------------- registry

\* article_type / feed_type class attributes (inherited where not overridden).
ClassAttr ==
    [ContentGenerator |-> [article_type |-> None, feed_type |-> None],
     ImageContentGenerator |-> [article_type |-> "image", feed_type |-> None],
     EmbeddedContentGenerator |-> [article_type |-> "embedded", feed_type |-> None],
     TruncatedContentGenerator |-> [article_type |-> None, feed_type |-> None],
     RedditContentGenerator |-> [article_type |-> None, feed_type |-> "reddit"]]

\* cls.__subclasses__(), in definition order.
Subclasses(c) ==
    CASE c = "ContentGenerator" ->
             <<"ImageContentGenerator", "EmbeddedContentGenerator",
               "TruncatedContentGenerator">>
      [] c = "TruncatedContentGenerator" -> <<"RedditContentGenerator">>
      [] OTHER -> <<>>

DictSet(d, k, v) == [x \in DOMAIN d \cup {k} |-> IF x = k THEN v ELSE d[x]]

\* feed_mapping(subcls_) on the registry reg
feed_mapping(reg, c) ==
    LET r1 == IF EnumTruthy(ClassAttr[c].feed_type)
              THEN DictSet(reg, ClassAttr[c].feed_type, c) ELSE reg
    IN  IF EnumTruthy(ClassAttr[c].article_type)
        THEN DictSet(r1, ClassAttr[c].article_type, c) ELSE r1

RECURSIVE MapAll(_, _)
MapAll(reg, cs) ==
    IF cs = <<>> THEN reg ELSE MapAll(feed_mapping(reg, Head(cs)), Tail(cs))

\* the module-level loop over subclasses and their subclasses
RECURSIVE ScanSubclasses(_, _)
ScanSubclasses(reg, cs) ==
    IF cs = <<>> THEN reg
    ELSE ScanSubclasses(MapAll(feed_mapping(reg, Head(cs)), Subclasses(Head(cs))),
                        Tail(cs))

CONTENT_GENERATORS == ScanSubclasses(EmptyDict, Subclasses("ContentGenerator"))

\* Variant: the feed type is looked up before the article type.
get_content_generator_feed_first(art) ==
    IF EnumTruthy(art.feed.feed_type)
       /\ art.feed.feed_type \in DOMAIN CONTENT_GENERATORS
    THEN CONTENT_GENERATORS[art.feed.feed_type]
    ELSE IF EnumTruthy(art.article_type)
            /\ art.article_type \in DOMAIN CONTENT_GENERATORS
    THEN CONTENT_GENERATORS[art.article_type]
    ELSE IF art.feed.truncated_content THEN "TruncatedContentGenerator"
    ELSE "ContentGenerator"

\* get_content_generator (the wrapped function): the class it instantiates.
get_content_generator(art) ==
    IF EnumTruthy(art.article_type) /\ art.article_type \in DOMAIN CONTENT_GENERATORS
    THEN CONTENT_GENERATORS[art.article_type]
    ELSE IF EnumTruthy(art.feed.feed_type)
            /\ art.feed.feed_type \in DOMAIN CONTENT_GENERATORS
    THEN CONTENT_GENERATORS[art.feed.feed_type]
    ELSE IF art.feed.truncated_content THEN "TruncatedContentGenerator"
    ELSE "ContentGenerator"

\* ------------------------------------------------------------- lru_cache

\* Position of key k in the cache (0 when absent); most recently used last.
RECURSIVE CacheIndexFrom(_, _, _)
CacheIndexFrom(c, k, i) ==
    IF i > Len(c) THEN 0
    ELSE IF c[i].key = k THEN i
    ELSE CacheIndexFrom(c, k, i + 1)
CacheIndex(c, k) == CacheIndexFrom(c, k, 1)

RemoveAt(s, i) == SubSeq(s, 1, i - 1) \o SubSeq(s, i + 1, Len(s))

\* A hit moves the entry to the most recently used end.
LruTouch(c, i) == Append(RemoveAt(c, i), c[i])

\* Variant: a full cache drops its most recently used entry.
LruInsertDropsNewest(c, e) ==
    IF Len(c) >= LruMaxSize THEN Append(SubSeq(c, 1, Len(c) - 1), e) ELSE Append(c, e)

\* A miss stores the new result; a full cache drops its least recently used entry.
LruInsert(c, e) ==
    IF Len(c) >= LruMaxSize THEN Append(Tail(c), e) ELSE Append(c, e)

\* ------------------------------------------------------ observation

\* Distinct other articles looked up since article a was last looked up.
RECURSIVE IndexOf(_, _, _)
IndexOf(s, x, i) ==
    IF i > Len(s) THEN 0 ELSE IF s[i] = x THEN i ELSE IndexOf(s, x, i + 1)
OthersSince(rec, a) ==
    IF IndexOf(rec, a, 1) = 0 THEN 0 ELSE Len(rec) - IndexOf(rec, a, 1)
Touch(rec, a) ==
    IF IndexOf(rec, a, 1) = 0 THEN Append(rec, a)
    ELSE Append(RemoveAt(rec, IndexOf(rec, a, 1)), a)

NoCall ==
    [op |-> "none", article |-> 0, inst |-> 0, pre |-> ContentGenerator_init("", 0),
     fetch |-> NoFetch, head |-> NoHead, fetched |-> FALSE,
     out |-> Return(<<>>), prev |-> 0, others |-> 0]

\* ---------------------------------------------------------------- actions

\* get_content_generator(article) through its lru_cache wrapper.
GetContentGenerator(a) ==
    LET idx == CacheIndex(cache, a)
        new == Len(insts) + 1
        inst == IF idx # 0 THEN cache[idx].inst ELSE new
        created == ContentGenerator_init(get_content_generator(articles[a]), a)
    IN  /\ IF idx # 0
           THEN /\ cache' = LruTouch(cache, idx)
                /\ UNCHANGED <<insts, fetches>>
           ELSE /\ cache' = LruInsert(cache, [key |-> a, inst |-> new])
                /\ insts' = Append(insts, created)
                /\ fetches' = Append(fetches, 0)
        /\ recency' = Touch(recency, a)
        /\ lastInst' = [lastInst EXCEPT ![a] = inst]
        /\ call' = [NoCall EXCEPT !.op = "get_content_generator", !.article = a,
                                  !.inst = inst, !.out = Return(inst),
                                  !.prev = lastInst[a],
                                  !.others = OthersSince(recency, a)]
        /\ UNCHANGED <<articles, apiVars>>

\* A method call on strategy instance i; f and reply are what the page fetch and
\* the HEAD request would give, recorded only when the call consumes them.
MethodCall(i, op, r, f, reply) ==
    LET self == insts[i]
        art == articles[self.article]
        headed == self.cls = "RedditContentGenerator"
                  /\ is_pure_reddit_post(art, reply).headed
    IN  /\ r.fetched => fetches[i] < MaxFetches
        /\ insts' = [insts EXCEPT ![i] = r.self]
        /\ fetches' = [fetches EXCEPT ![i] = IF r.fetched THEN @ + 1 ELSE @]
        /\ call' = [NoCall EXCEPT !.op = op, !.article = self.article, !.inst = i,
                                  !.pre = self,
                                  !.fetch = IF r.fetched THEN f ELSE NoFetch,
                                  !.head = IF headed THEN reply ELSE NoHead,
                                  !.fetched = r.fetched,
                                  !.out = r.out]
        /\ UNCHANGED <<articles, cache, recency, lastInst, apiVars>>

Generate(i) ==
    \E f \in FetchOutcomes, reply \in HeadRepliesFor(articles[insts[i].article].comments) :
        MethodCall(i, "generate",
                   generate(insts[i], articles[insts[i].article], f, reply), f, reply)

GetVector(i) ==
    \E f \in FetchOutcomes, reply \in HeadRepliesFor(articles[insts[i].article].comments) :
        MethodCall(i, "get_vector",
                   get_vector(insts[i], articles[insts[i].article], f, reply), f, reply)

\* ------------------------------------------------- article API (creation)

\* Users of the test fixtures (login -> id) and the owners of their feeds.
UserId == [admin |-> 1, user1 |-> 2, user2 |-> 3]
Logins == DOMAIN UserId
IsAdmin(login) == login = "admin"
FeedOwner == [feed1 |-> "user1", feed5 |-> "user2", feed6 |-> "user2"]
FeedIds == DOMAIN FeedOwner

\* One object of a creation request: {'feed_id': feed, 'user_id': asked}, asked
\* = "" when the request names no user.
AskedValues == {"", "admin", "user1"}
Items == [feed : FeedIds, asked : AskedValues]
\* Request bodies of the bulk endpoint: lists of one or two objects.
BulkRequests == {<<i>> : i \in Items} \cup (Items \X Items)

NoResp ==
    [endpoint |-> "", status |-> 0, user_id |-> 0, caller |-> "", feed |-> "",
     asked |-> "", had_api |-> FALSE, created |-> FALSE, results |-> <<>>]

\* Creation of one article once the request is allowed. A plain user's request
\* is scoped to the caller whatever user_id it names; an admin's request is
\* scoped to the user it names, or to nobody. The feed must be found in that
\* scope (else 404) and the article belongs to the feed's owner.
CreateOne(login, feed, asked) ==
    LET scope == IF IsAdmin(login) THEN asked ELSE login
    IN  IF scope # "" /\ FeedOwner[feed] # scope
        THEN [status |-> 404, created |-> FALSE, owner |-> ""]
        ELSE [status |-> 201, created |-> TRUE, owner |-> FeedOwner[feed]]

\* Variant: the feed is looked up before the API permission is checked.
ArticlePost_feed_first(login, feed, asked, api) ==
    IF ~CreateOne(login, feed, asked).created THEN CreateOne(login, feed, asked)
    ELSE IF login \notin api THEN [status |-> 403, created |-> FALSE, owner |-> ""]
    ELSE CreateOne(login, feed, asked)

\* POST /article by `login` with data {'feed_id': feed, 'user_id': asked}: the
\* status, and the owner of the article created, if any.
ArticlePost(login, feed, asked, api) ==
    IF login \notin api THEN [status |-> 403, created |-> FALSE, owner |-> ""]
    ELSE CreateOne(login, feed, asked)

\* POST /articles by `login` with a list of objects: each is created on its own;
\* 201 when all were, 206 when some were, 500 when none was.
ArticlesPost(login, items, api) ==
    IF login \notin api THEN [status |-> 403, results |-> <<>>]
    ELSE LET results == [i \in DOMAIN items |->
                            CreateOne(login, items[i].feed, items[i].asked)]
             ok == {i \in DOMAIN items : results[i].created}
         IN  [status |-> IF ok = DOMAIN items THEN 201
                         ELSE IF ok = {} THEN 500 ELSE 206,
              results |-> results]

\* The articles a bulk request stores, in the order of the request.
RECURSIVE CreatedOf(_, _)
CreatedOf(items, results) ==
    IF results = <<>> THEN <<>>
    ELSE (IF Head(results).created
          THEN <<[user_id |-> UserId[Head(results).owner], feed_id |-> Head(items).feed]>>
          ELSE <<>>) \o CreatedOf(Tail(items), Tail(results))

\* UserController().update({'login': login}, {'is_api': True})
GrantApi(login) ==
    /\ login \notin is_api
    /\ is_api' = is_api \cup {login}
    /\ resp' = NoResp
    /\ UNCHANGED <<db_articles, genVars>>

PostArticle(login, feed, asked) ==
    LET r == ArticlePost(login, feed, asked, is_api)
    IN  /\ r.created => Len(db_articles) < MaxCreated
        /\ db_articles' = IF r.created
                          THEN Append(db_articles,
                                      [user_id |-> UserId[r.owner], feed_id |-> feed])
                          ELSE db_articles
        /\ resp' = [NoResp EXCEPT
                    !.endpoint = "article", !.status = r.status,
                    !.user_id = IF r.created THEN UserId[r.owner] ELSE 0,
                    !.caller = login, !.feed = feed, !.asked = asked,
                    !.had_api = login \in is_api, !.created = r.created]
        /\ UNCHANGED <<is_api, genVars>>

PostArticles(login, items) ==
    LET r == ArticlesPost(login, items, is_api)
        new == CreatedOf(items, r.results)
    IN  /\ Len(db_articles) + Len(new) <= MaxCreated
        /\ db_articles' = db_articles \o new
        /\ resp' = [NoResp EXCEPT
                    !.endpoint = "articles", !.status = r.status,
                    !.caller = login, !.had_api = login \in is_api,
                    !.created = new # <<>>,
                    !.results = [i \in DOMAIN r.results |-> r.results[i].status]]
        /\ UNCHANGED <<is_api, genVars>>

\* ---------------------------------------------------------- specifications

\* The fixtures: the admin account holds the API permission, the plain users
\* do not.
ApiInit ==
    /\ is_api = {"admin"}
    /\ db_articles = <<>>
    /\ resp = NoResp

GenIdle ==
    /\ insts = <<>>
    /\ fetches = <<>>
    /\ cache = <<>>
    /\ recency = <<>>
    /\ call = NoCall

\* One article of any shape, and the strategies' whole interface.
Init ==
    /\ \E v \in ArticleValues : articles = <<v>>
    /\ lastInst = <<0>>
    /\ GenIdle
    /\ ApiInit

Next ==
    \/ \E a \in DOMAIN articles : GetContentGenerator(a)
    \/ \E i \in DOMAIN insts : Generate(i)
    \/ \E i \in DOMAIN insts : GetVector(i)

Spec == Init /\ [][Next]_vars

\* Many articles looked up through the cache: article 1 is held by the caller
\* and looked up again at any time, the others are looked up once, in order.
LruArticle ==
    [article_type |-> None,
     feed |-> [feed_type |-> "classic", truncated_content |-> TRUE],
     link |-> LinkReddit, comments |-> None,
     title |-> NoneText, content |-> NoneText]

InitLru ==
    /\ articles = [a \in 1..MaxArticles |-> LruArticle]
    /\ lastInst = [a \in 1..MaxArticles |-> 0]
    /\ GenIdle
    /\ ApiInit

LookupHeld == GetContentGenerator(1)

\* The next article never looked up so far, once the held one is in use.
LookupFresh ==
    \E a \in DOMAIN articles :
        /\ lastInst[1] # 0
        /\ a = Len(recency) + 1
        /\ GetContentGenerator(a)

NextLru == LookupHeld \/ LookupFresh

SpecLru == InitLru /\ [][NextLru]_vars

\* The article-creation endpoint under any order of grants and requests.
InitApi ==
    /\ articles = <<>>
    /\ lastInst = <<>>
    /\ GenIdle
    /\ ApiInit

NextApi ==
    \/ \E login \in Logins : GrantApi(login)
    \/ \E login \in Logins, feed \in FeedIds, asked \in AskedValues :
           PostArticle(login, feed, asked)
    \/ \E login \in Logins, items \in BulkRequests : PostArticles(login, items)

SpecApi == InitApi /\ [][NextApi]_vars

\* ----------------------------------------------------------------- claims

IsMethod == call.op \in {"generate", "get_vector"}
CallArticle == articles[call.article]
NothingToRender == Return([success |-> FALSE, content |-> EmptyDict])

\* The strategy the resolution order of the registry chapter gives an article.
ExpectedStrategy(art) ==
    IF art.article_type = "image" THEN "ImageContentGenerator"
    ELSE IF art.article_type = "embedded" THEN "EmbeddedContentGenerator"
    ELSE IF art.feed.feed_type = "reddit" THEN "RedditContentGenerator"
    ELSE IF art.feed.truncated_content THEN "TruncatedContentGenerator"
    ELSE "ContentGenerator"

\* C1: every strategy instance built for an article has the class chosen by
\* first match: registered article type, else registered feed type, else the
\* truncated-content strategy for a truncated feed, else the base strategy.
C1_ResolutionOrder ==
    \A i \in DOMAIN insts :
        insts[i].cls = ExpectedStrategy(articles[insts[i].article])

C1_Witness ==
    \E i \in DOMAIN insts :
        /\ articles[insts[i].article].article_type = "image"
        /\ articles[insts[i].article].feed.feed_type = "reddit"
        /\ insts[i].cls = "ImageContentGenerator"

\* C2 as stated: a lookup of an article looked up before returns the instance
\* the earlier lookup returned, however many other articles came in between.
C2_SameInstanceAlways ==
    (call.op = "get_content_generator" /\ call.prev # 0)
        => call.out.value = call.prev

\* C2 amended: a lookup of an article looked up before returns the same
\* instance when fewer than 128 distinct other articles were looked up since.
C2_SameInstanceWithinCapacity ==
    (call.op = "get_content_generator" /\ call.prev # 0
     /\ call.others < LruMaxSize)
        => call.out.value = call.prev

C2_Witness ==
    /\ call.op = "get_content_generator"
    /\ call.prev # 0
    /\ call.others = LruMaxSize - 1
    /\ call.out.value = call.prev

\* C3: no call of generate() or get_vector() ends with an exception.
C3_NoExceptionEscapes ==
    IsMethod => call.out.raised = ""

\* C4 as stated: for an article of a reddit feed whose link equals its
\* comments, is_pure_reddit_post is true and generate() returns (False, {}).
C4_RedditLinkIsComments ==
    (call.op = "generate" /\ CallArticle.feed.feed_type = "reddit"
     /\ CallArticle.link = CallArticle.comments)
        => /\ call.pre.cls = "RedditContentGenerator"
           /\ is_pure_reddit_post(CallArticle, call.head).value
           /\ call.out = NothingToRender

\* C4 amended: the same for an article of a reddit feed that has no article
\* type.
C4_RedditLinkIsCommentsUntyped ==
    (call.op = "generate" /\ CallArticle.feed.feed_type = "reddit"
     /\ CallArticle.article_type = None
     /\ CallArticle.link = CallArticle.comments)
        => /\ call.pre.cls = "RedditContentGenerator"
           /\ is_pure_reddit_post(CallArticle, call.head).value
           /\ call.out = NothingToRender
           /\ ~call.fetched

C4_Witness ==
    /\ call.op = "generate"
    /\ call.pre.cls = "RedditContentGenerator"
    /\ CallArticle.article_type = None
    /\ CallArticle.link = CallArticle.comments
    /\ call.out = NothingToRender

\* C5: on the reddit strategy, for an article without article type whose link
\* differs from its comments, a HEAD request that succeeds and resolves to the
\* article's link makes generate() return (False, {}) and get_vector() nothing.
C5_PureWhenHeadResolvesToLink ==
    (IsMethod /\ call.pre.cls = "RedditContentGenerator"
     /\ CallArticle.article_type = None
     /\ CallArticle.link # CallArticle.comments
     /\ call.head = CallArticle.link)
        => /\ ~call.fetched
           /\ call.out = IF call.op = "generate"
                         THEN NothingToRender ELSE Return(NoVector)

\* C6: on the reddit strategy, for an article whose link differs from its
\* comments, when the HEAD request fails or resolves elsewhere the call returns
\* what the truncated-content strategy returns for the same instance state and
\* page fetch, and leaves the instance as that strategy would.
C6_FallsBackToTruncated ==
    (IsMethod /\ call.pre.cls = "RedditContentGenerator"
     /\ CallArticle.link # CallArticle.comments
     /\ call.head \in HeadReplies \ {CallArticle.link})
        => LET t == IF call.op = "generate"
                    THEN TruncatedContentGenerator_generate(call.pre, CallArticle,
                                                            call.fetch)
                    ELSE ContentGenerator_get_vector(call.pre, call.fetch)
           IN  /\ call.out = t.out
               /\ call.fetched = t.fetched
               /\ insts[call.inst] = t.self

C6_Witness ==
    /\ call.op = "generate"
    /\ call.pre.cls = "RedditContentGenerator"
    /\ CallArticle.link # CallArticle.comments
    /\ call.head = HeadError
    /\ call.fetched
    /\ call.out.value.success

\* C7: generate() of the truncated-content strategy: with a page fetched and
\* serialized, success is true and the content holds type 'fetched', the
\* serialized markup, the page's final URL, and comments exactly when
\* article.comments is truthy; with no page, success is false and the content
\* is exactly {'type': 'fetched'}.
C7_TruncatedResult ==
    (call.op = "generate" /\ call.pre.cls = "TruncatedContentGenerator")
        => LET page == insts[call.inst].page
               res == call.out.value
           IN  /\ call.out.raised = ""
               /\ (~page.none /\ ~page.top_node.none)
                      => /\ res.success
                         /\ res.content.type = "fetched"
                         /\ res.content.content = SerializeFrom(page.top_node.nodes)
                         /\ res.content.link = page.final_url
                         /\ ("comments" \in DOMAIN res.content)
                                <=> StrTruthy(CallArticle.comments)
                         /\ ("comments" \in DOMAIN res.content)
                                => res.content.comments = CallArticle.comments
                         /\ DOMAIN res.content \subseteq
                                {"type", "content", "link", "comments"}
               /\ page.none
                      => /\ ~res.success
                         /\ res.content = [type |-> "fetched"]

C7_Witness ==
    /\ call.op = "generate"
    /\ call.pre.cls = "TruncatedContentGenerator"
    /\ call.fetched
    /\ call.out.value.success
    /\ CallArticle.comments = ""
    /\ "comments" \notin DOMAIN call.out.value.content

\* C8: for an article of type image, generate() returns success with content
\* type "image", and neither generate() nor get_vector() fetches the page
\* (get_vector() returns nothing).
C8_ImageAlwaysSucceeds ==
    (IsMethod /\ CallArticle.article_type = "image")
        => /\ ~call.fetched
           /\ call.op = "generate"
                  => /\ call.out.raised = ""
                     /\ call.out.value.success
                     /\ call.out.value.content.type = "image"
           /\ call.op = "get_vector" => call.out = Return(NoVector)

\* C9 as stated: a creation request by a user without the API permission is
\* answered 403 and creates nothing; with the permission, on a feed the caller
\* owns, it is answered 201 and the article belongs to the caller; with the
\* permission, on a feed of someone else, it is answered 404.
C9_CreationPermission ==
    (resp.endpoint = "article")
        => /\ ~resp.had_api => (resp.status = 403 /\ ~resp.created)
           /\ (resp.had_api /\ FeedOwner[resp.feed] = resp.caller)
                  => /\ resp.status = 201
                     /\ resp.created
                     /\ resp.user_id = UserId[resp.caller]
                     /\ db_articles[Len(db_articles)].user_id = UserId[resp.caller]
           /\ (resp.had_api /\ FeedOwner[resp.feed] # resp.caller)
                  => (resp.status = 404 /\ ~resp.created)

\* C9 amended: the 404 for a feed of someone else holds for callers that are
\* not admin; an admin's request naming the feed's owner is answered 201 and
\* the article belongs to that owner.
C9_CreationPermissionPlainUser ==
    (resp.endpoint = "article")
        => /\ ~resp.had_api => (resp.status = 403 /\ ~resp.created)
           /\ (resp.had_api /\ FeedOwner[resp.feed] = resp.caller)
                  => /\ resp.status = 201
                     /\ resp.created
                     /\ resp.user_id = UserId[resp.caller]
                     /\ db_articles[Len(db_articles)].user_id = UserId[resp.caller]
           /\ (resp.had_api /\ ~IsAdmin(resp.caller)
               /\ FeedOwner[resp.feed] # resp.caller)
                  => (resp.status = 404 /\ ~resp.created)
           /\ (resp.had_api /\ IsAdmin(resp.caller)
               /\ resp.asked = FeedOwner[resp.feed])
                  => /\ resp.status = 201
                     /\ db_articles[Len(db_articles)].user_id = UserId[resp.asked]

C9_Witness ==
    /\ resp.endpoint = "article"
    /\ resp.status = 201
    /\ ~IsAdmin(resp.caller)
    /\ resp.had_api
    /\ FeedOwner[resp.feed] = resp.caller
    /\ db_articles[Len(db_articles)].user_id = UserId[resp.caller]

\* The call reaches `if self._page is None: self._get_goose()`.
NeedsPage ==
    \/ call.pre.cls = "ContentGenerator" /\ call.op = "get_vector"
    \/ call.pre.cls = "TruncatedContentGenerator"
    \/ /\ call.pre.cls = "RedditContentGenerator"
       /\ ~(CallArticle.article_type = None
            /\ CallArticle.link = CallArticle.comments)

\* C10 as stated: one strategy instance attempts the page fetch at most once.
C10_FetchAtMostOnce ==
    \A i \in DOMAIN insts : fetches[i] <= 1

\* C10 amended: a call made on an instance that already holds a fetched page
\* does not fetch again; a call that needs the page and finds none, also after
\* a failed attempt, fetches.
C10_NoFetchOncePageHeld ==
    IsMethod
        => /\ ~call.pre.page.none
                  => (~call.fetched /\ insts[call.inst].page = call.pre.page)
           /\ (call.pre.page.none /\ NeedsPage)
                  => call.fetched

C10_Witness ==
    /\ IsMethod
    /\ ~call.pre.page.none
    /\ call.pre.cls \in {"ContentGenerator", "TruncatedContentGenerator",
                         "RedditContentGenerator"}
    /\ fetches[call.inst] = 1
    /\ ~call.fetched

====
